---- MODULE Spec2Model ----
(***************************************************************************)
(* Model of structure/analyseInteraction.py: the class maskMatrix.         *)
(*                                                                         *)
(* Numbers.  A probability is an integer number of cell units; the literal *)
(* 0.5 of line 35 is Half units and the literal 1 of line 90 is One =      *)
(* 2 * Half units.  A bin centre is kept doubled (start + end), so a       *)
(* distance is an integer number of half base pairs.  A value stored in    *)
(* the bin table is a tagged tuple: <<"num", x>>, <<"nan", 0>>,            *)
(* <<"inf", 1>>, <<"inf", -1>>, <<"uint32max", 0>> or, for a finite log2   *)
(* ratio, <<"log2", upSum, downSum>> standing for log2(upSum / downSum).   *)
(*                                                                         *)
(* Indices.  numpy indices are 0-based and TLA+ sequences 1-based: the     *)
(* element with numpy index i is element i + 1 of the sequence.  Operators *)
(* that model code taking or returning indices keep the 0-based values.    *)
(***************************************************************************)
EXTENDS Integers, Sequences, FiniteSets, TLC

\* ------------------------------------------------------------------ bounds
MaxN == 3
MaxP == 1
MaxLen == 4

\* --------------------------------------------------------------- constants
Half == 1
One == 2 * Half
MaxlDefault == 10

PVals == 0..MaxP
Chrs == {"chr1", "nan"}
Maxls == {0, 1, MaxlDefault}

VARIABLES
    pc,          \* "file": before maskMatrix(...); "ready"; "failed"
    err,         \* the exception __init__ raised, or "none"
    binNames,    \* the header line, parsed: sequence of [chr, start, end]
    fileMatrix,  \* the rows of numbers below the header line
    binDF,       \* self.binDF: one record per bin
    probMatrix,  \* self.probMatrix: [data, mask]
    distMatrix,  \* self.distMatrix: [data, mask]
    called,      \* which analysis methods have run, and binDirection's maxl
    profile,     \* what combinedDistance returned: [called, pairs]
    rpc,         \* row-level calls: position
    rArray,      \* row-level calls: the masked row passed to upDown
    rIndex,      \* row-level calls: the index passed to upDown
    rMaxl,       \* row-level calls: the maxl passed to unmaskedPair
    rUp,         \* row-level calls: upDown's first result
    rDown,       \* row-level calls: upDown's second result
    rIndices,    \* row-level calls: unmaskedPair's result
    rOut         \* row-level calls: the values binDirection's loop body stores

mainVars == <<pc, err, binNames, fileMatrix, binDF, probMatrix, distMatrix,
              called, profile>>
rowVars == <<rpc, rArray, rIndex, rMaxl, rUp, rDown, rIndices, rOut>>
vars == <<pc, err, binNames, fileMatrix, binDF, probMatrix, distMatrix,
          called, profile, rpc, rArray, rIndex, rMaxl, rUp, rDown, rIndices,
          rOut>>

\* ------------------------------------------------------------------ values
Num(x) == <<"num", x>>
NaN == <<"nan", 0>>
PosInf == <<"inf", 1>>
NegInf == <<"inf", -1>>
Str(s) == <<"str", s>>
NaNGroup == <<"float", "nan">>
\* 4294967295, which is past the integers TLC computes with.
Uint32Max == <<"uint32max", 0>>

Min(a, b) == IF a <= b THEN a ELSE b
Abs(x) == IF x < 0 THEN -x ELSE x

RECURSIVE SumSeq(_)
SumSeq(s) == IF s = <<>> THEN 0 ELSE Head(s) + SumSeq(Tail(s))

\* ----------------------------------------------------------- masked arrays
\* A masked array is a sequence of cells [v |-> value, m |-> masked].
MaskOf(a) == [k \in 1..Len(a) |-> a[k].m]

RECURSIVE MaSum(_)
MaSum(a) ==
    IF a = <<>> THEN 0
    ELSE (IF Head(a).m THEN 0 ELSE Head(a).v) + MaSum(Tail(a))

RECURSIVE MaCount(_)
MaCount(a) ==
    IF a = <<>> THEN 0
    ELSE (IF Head(a).m THEN 0 ELSE 1) + MaCount(Tail(a))

\* Row i (numpy index) of a masked matrix [data, mask].
MaRow(M, i) ==
    [j \in 1..Len(M.data[i + 1]) |->
        [v |-> M.data[i + 1][j], m |-> M.mask[i + 1][j]]]

\* ---------------------------------------------------------------- __init__
BinStart(i) == (i * (i - 1)) \div 2
BinEnd(i) == (i * (i + 1)) \div 2

NoMatrix == [data |-> <<>>, mask |-> <<>>]

\* np.loadtxt squeezes axes of length one out of the shape.
LoadtxtShape(matrix) ==
    LET r == Len(matrix)
        c == Len(matrix[1])
    IN  IF r = 1 /\ c = 1 THEN <<>>
        ELSE IF r = 1 THEN <<c>>
        ELSE IF c = 1 THEN <<r>>
        ELSE <<r, c>>

\* centre = np.mean([start, end]), kept doubled.
Centre(names) == [i \in 1..Len(names) |-> names[i].start + names[i].end]

ChrMask(chrArray) ==
    [i \in 1..Len(chrArray) |->
        [j \in 1..Len(chrArray) |-> chrArray[j] # chrArray[i]]]

ColSum(matrix, j) == SumSeq([r \in 1..Len(matrix) |-> matrix[r][j]])

\* Mutant: the sum taken along the rows (axis 1).
LowValuesAxis1(matrix) ==
    [i \in 1..Len(matrix) |-> SumSeq(matrix[i]) < Half]

LowValues(matrix) ==
    [j \in 1..Len(matrix[1]) |-> ColSum(matrix, j) < Half]

\* Mutant: line 37 left out, only the rows of low bins are masked.
MaskLowRows(mask, lowValues) ==
    [i \in 1..Len(mask) |->
        [j \in 1..Len(mask) |-> mask[i][j] \/ lowValues[i]]]

MaskLow(mask, lowValues) ==
    [i \in 1..Len(mask) |->
        [j \in 1..Len(mask) |-> mask[i][j] \/ lowValues[i] \/ lowValues[j]]]

Groups(chrArray, lowValues) ==
    [i \in 1..Len(chrArray) |->
        IF lowValues[i] THEN NaNGroup ELSE Str(chrArray[i])]

DistData(centreArray) ==
    [i \in 1..Len(centreArray) |->
        [j \in 1..Len(centreArray) |-> Abs(centreArray[j] - centreArray[i])]]

ProbMask(maskMatrix) == maskMatrix
DistMask(maskMatrix) == maskMatrix

NewBin(name, group) ==
    [chr |-> name.chr, start |-> name.start, end |-> name.end,
     centre |-> name.start + name.end, group |-> group,
     self |-> NaN, inter |-> NaN, up |-> NaN, down |-> NaN, log2 |-> NaN,
     dist |-> NaN]

\* Mutant: the test of lines 30-31 left out.
InitErrorNoSquare(names, matrix) ==
    LET shape == LoadtxtShape(matrix)
    IN  IF Len(shape) < 2 THEN "IndexError(shape)"
        ELSE IF Len(LowValues(matrix)) # Len(names) THEN "IndexError(mask)"
        ELSE "none"

\* The exception __init__ raises on this file, or "none": IndexError when
\* shape[0] or shape[1] does not exist (line 30), IOError when they differ
\* (line 31), IndexError when the boolean index lowValues has not the length
\* of the mask's axis (line 36).
InitError(names, matrix) ==
    LET shape == LoadtxtShape(matrix)
    IN  IF Len(shape) < 2 THEN "IndexError(shape)"
        ELSE IF shape[1] # shape[2] THEN "IOError"
        ELSE IF Len(LowValues(matrix)) # Len(names) THEN "IndexError(mask)"
        ELSE "none"

Construct ==
    /\ pc = "file"
    /\ LET e == InitError(binNames, fileMatrix)
       IN  /\ err' = e
           /\ IF e # "none"
              THEN /\ pc' = "failed"
                   /\ UNCHANGED <<binDF, probMatrix, distMatrix>>
              ELSE LET chrArray == [i \in 1..Len(binNames) |-> binNames[i].chr]
                       lowValues == LowValues(fileMatrix)
                       maskMatrix == MaskLow(ChrMask(chrArray), lowValues)
                       groups == Groups(chrArray, lowValues)
                   IN  /\ pc' = "ready"
                       /\ binDF' = [i \in 1..Len(binNames) |->
                                        NewBin(binNames[i], groups[i])]
                       /\ probMatrix' = [data |-> fileMatrix,
                                         mask |-> ProbMask(maskMatrix)]
                       /\ distMatrix' = [data |-> DistData(Centre(binNames)),
                                         mask |-> DistMask(maskMatrix)]
    /\ UNCHANGED <<binNames, fileMatrix, called, profile>>
    /\ UNCHANGED rowVars

\* ------------------------------------------------------------------ upDown
\* array[start::-1]: a negative start counts from the end, a start past the
\* end is clipped to the last element.
SliceDown(array, start) ==
    LET n == Len(array)
        s0 == IF start < 0 THEN start + n ELSE start
        s == IF s0 >= n THEN n - 1 ELSE s0
    IN  IF s < 0 THEN <<>> ELSE [k \in 1..(s + 1) |-> array[s + 2 - k]]

\* array[start:] for start >= 0.
SliceFrom(array, start) ==
    LET n == Len(array)
        s == IF start > n THEN n ELSE start
    IN  [k \in 1..(n - s) |-> array[s + k]]

\* Mutant: index 0 not treated apart.
UpDownNoEdge(array, index) ==
    [up |-> SliceDown(array, index - 1),
     down |-> SliceFrom(array, index + 1)]

UpDown(array, index) ==
    [up |-> IF index = 0 THEN <<>> ELSE SliceDown(array, index - 1),
     down |-> SliceFrom(array, index + 1)]

\* ------------------------------------------------------------ unmaskedPair
\* mask[:maxl] for maxl >= 0.
Prefix(s, n) == [k \in 1..Min(Len(s), n) |-> s[k]]

LogicalOr(m1, m2) == [k \in 1..Len(m1) |-> m1[k] \/ m2[k]]

\* np.where(masked == False)[0]: the 0-based positions, increasing.
RECURSIVE WhereFalse(_, _)
WhereFalse(masked, from) ==
    IF from > Len(masked) THEN <<>>
    ELSE (IF masked[from] THEN <<>> ELSE <<from - 1>>)
         \o WhereFalse(masked, from + 1)

\* Mutant: maxl not taken into the minimum.
UnmaskedPairUncapped(a1, a2, maxl0) ==
    LET maxl == Min(Len(a1), Len(a2))
    IN  IF maxl = 0 THEN <<>>
        ELSE WhereFalse(LogicalOr(Prefix(MaskOf(a1), maxl),
                                  Prefix(MaskOf(a2), maxl)), 1)

UnmaskedPair(a1, a2, maxl0) ==
    LET maxl == Min(Min(Len(a1), Len(a2)), maxl0)
    IN  IF maxl = 0 THEN <<>>
        ELSE WhereFalse(LogicalOr(Prefix(MaskOf(a1), maxl),
                                  Prefix(MaskOf(a2), maxl)), 1)

\* ------------------------------------------------------------ binDirection
\* Mutant: no row is skipped.
NeverSkipped(row) == FALSE

FullyMasked(row) == MaCount(row) = 0

\* a[indices]: fancy indexing with 0-based positions.
Take(a, indices) == [k \in 1..Len(indices) |-> a[indices[k] + 1]]

\* Mutant: the sum of the data, masked cells included.
WindowProbData(window) == SumSeq([k \in 1..Len(window) |-> window[k].v])

WindowProb(window) == IF MaCount(window) = 0 THEN 0 ELSE MaSum(window)

\* Mutant: the inner test of downSum left out.
Log2RatioNoInner(upSum, downSum) ==
    IF upSum = 0 THEN NegInf
    ELSE IF downSum = 0 THEN PosInf
    ELSE <<"log2", upSum, downSum>>

Log2Ratio(upSum, downSum) ==
    IF upSum = 0
    THEN (IF downSum = 0 THEN NaN ELSE NegInf)
    ELSE IF downSum = 0 THEN PosInf
    ELSE <<"log2", upSum, downSum>>

AlignedLog2(up, down, indices) ==
    IF Len(indices) > 0
    THEN Log2Ratio(MaSum(Take(up, indices)), MaSum(Take(down, indices)))
    ELSE NaN

\* The body of the loop for a row that is not skipped (lines 79-108).
DirectionRow(row, rowNo, maxl) ==
    LET w == UpDown(row, rowNo)
        selfProb == row[rowNo + 1].v
        upProb == WindowProb(w.up)
        downProb == WindowProb(w.down)
        interProb == One - upProb - downProb - selfProb
        indices == UnmaskedPair(w.up, w.down, maxl)
    IN  [self |-> Num(selfProb), inter |-> Num(interProb),
         up |-> Num(upProb), down |-> Num(downProb),
         log2 |-> AlignedLog2(w.up, w.down, indices)]

BinDirection ==
    /\ pc = "ready"
    /\ ~called.binDirection
    /\ \E maxl \in Maxls :
        /\ called' = [called EXCEPT !.binDirection = TRUE, !.maxl = maxl]
        /\ binDF' = [i \in 1..Len(binDF) |->
                LET row == MaRow(probMatrix, i - 1)
                IN  IF FullyMasked(row) THEN binDF[i]
                    ELSE LET d == DirectionRow(row, i - 1, maxl)
                         IN  [binDF[i] EXCEPT !.self = d.self,
                                 !.inter = d.inter, !.up = d.up,
                                 !.down = d.down, !.log2 = d.log2]]
    /\ UNCHANGED <<pc, err, binNames, fileMatrix, probMatrix, distMatrix,
                   profile>>
    /\ UNCHANGED rowVars

\* ------------------------------------------------------------- binDistance
\* What np.uint32 makes of NaN is not defined; these are the values builds
\* are known to produce.
CastNaN == {Num(0), Uint32Max}

\* ma.average(a, weights = w): masked weights are filled with 0 and the sums
\* run over the cells that a's mask leaves; [n, d] with the mean n / (2 d),
\* a's values being doubled distances.
MaAverage(a, w) ==
    LET wf == [k \in 1..Len(a) |->
                  [v |-> IF w[k].m THEN 0 ELSE w[k].v, m |-> a[k].m]]
        aw == [k \in 1..Len(a) |-> [v |-> a[k].v * wf[k].v, m |-> a[k].m]]
    IN  [n |-> MaSum(aw), d |-> 2 * MaSum(wf)]

\* np.uint32(dist) of the mean n / d, which is NaN when d is 0; nanCast is
\* what the build makes of NaN.  The means of the model are far below 2^32.
ToUint32(avg, nanCast) ==
    IF avg.d = 0 THEN nanCast ELSE Num(avg.n \div avg.d)

BinDistance ==
    /\ pc = "ready"
    /\ ~called.binDistance
    /\ called' = [called EXCEPT !.binDistance = TRUE]
    /\ \E nanCast \in CastNaN :
        binDF' = [i \in 1..Len(binDF) |->
            LET row == MaRow(distMatrix, i - 1)
            IN  IF FullyMasked(row) THEN binDF[i]
                ELSE [binDF[i] EXCEPT !.dist =
                        ToUint32(MaAverage(row, MaRow(probMatrix, i - 1)),
                                 nanCast)]]
    /\ UNCHANGED <<pc, err, binNames, fileMatrix, probMatrix, distMatrix,
                   profile>>
    /\ UNCHANGED rowVars

\* -------------------------------------------------------- combinedDistance
RECURSIVE Flatten(_)
Flatten(rows) == IF rows = <<>> THEN <<>> ELSE Head(rows) \o Flatten(Tail(rows))

\* M[~M.mask]: the unmasked values in row-major order.
RECURSIVE Compress(_, _)
Compress(data, mask) ==
    IF data = <<>> THEN <<>>
    ELSE (IF Head(mask) THEN <<>> ELSE <<Head(data)>>)
         \o Compress(Tail(data), Tail(mask))

Unmasked(M) == Compress(Flatten(M.data), Flatten(M.mask))

\* Mutant: the two columns swapped.
Transpose2Swapped(dist, prob) ==
    [k \in 1..Min(Len(dist), Len(prob)) |-> <<prob[k], dist[k]>>]

\* np.array([dist, prob]).T: row k is (dist[k], prob[k]).  The two have the
\* same length, the two matrices carrying the same mask.
Transpose2(dist, prob) ==
    [k \in 1..Min(Len(dist), Len(prob)) |-> <<dist[k], prob[k]>>]

CombinedDistance ==
    /\ pc = "ready"
    /\ ~profile.called
    /\ profile' = [called |-> TRUE,
                   pairs |-> Transpose2(Unmasked(distMatrix),
                                        Unmasked(probMatrix))]
    /\ UNCHANGED <<pc, err, binNames, fileMatrix, binDF, probMatrix,
                   distMatrix, called>>
    /\ UNCHANGED rowVars

\* ------------------------------------------------------------ the program
Matrices(r, c) == [1..r -> [1..c -> PVals]]

Names(n) ==
    {[i \in 1..n |-> [chr |-> ch[i], start |-> BinStart(i), end |-> BinEnd(i)]] :
        ch \in [1..n -> Chrs]}

RowIdle ==
    /\ rpc = "idle"
    /\ rArray = <<>>
    /\ rIndex = 0
    /\ rMaxl = 0
    /\ rUp = <<>>
    /\ rDown = <<>>
    /\ rIndices = <<>>
    /\ rOut = <<>>

Init ==
    /\ pc = "file"
    /\ err = "none"
    /\ \E n \in 1..MaxN : binNames \in Names(n)
    /\ \E r \in 1..MaxN, c \in 1..MaxN : fileMatrix \in Matrices(r, c)
    /\ binDF = <<>>
    /\ probMatrix = NoMatrix
    /\ distMatrix = NoMatrix
    /\ called = [binDirection |-> FALSE, binDistance |-> FALSE, maxl |-> 0]
    /\ profile = [called |-> FALSE, pairs |-> <<>>]
    /\ RowIdle

Next ==
    \/ Construct
    \/ BinDirection
    \/ BinDistance
    \/ CombinedDistance

Spec == Init /\ [][Next]_vars

\* ------------------------------------------------- the row-level methods
\* upDown and unmaskedPair called on a masked row, as binDirection calls
\* them, followed by the values its loop body stores for that row.
Cells == [v : PVals, m : BOOLEAN]

MainIdle ==
    /\ pc = "idle"
    /\ err = "none"
    /\ binNames = <<>>
    /\ fileMatrix = <<>>
    /\ binDF = <<>>
    /\ probMatrix = NoMatrix
    /\ distMatrix = NoMatrix
    /\ called = [binDirection |-> FALSE, binDistance |-> FALSE, maxl |-> 0]
    /\ profile = [called |-> FALSE, pairs |-> <<>>]

InitRow ==
    /\ MainIdle
    /\ rpc = "start"
    /\ \E n \in 1..MaxLen : rArray \in [1..n -> Cells]
    /\ rIndex \in 0..(Len(rArray) - 1)
    /\ rMaxl \in 0..MaxLen
    /\ rUp = <<>>
    /\ rDown = <<>>
    /\ rIndices = <<>>
    /\ rOut = <<>>

RowUpDown ==
    /\ rpc = "start"
    /\ rpc' = "windows"
    /\ rUp' = UpDown(rArray, rIndex).up
    /\ rDown' = UpDown(rArray, rIndex).down
    /\ UNCHANGED <<rArray, rIndex, rMaxl, rIndices, rOut>>
    /\ UNCHANGED mainVars

RowUnmaskedPair ==
    /\ rpc = "windows"
    /\ rpc' = "paired"
    /\ rIndices' = UnmaskedPair(rUp, rDown, rMaxl)
    /\ UNCHANGED <<rArray, rIndex, rMaxl, rUp, rDown, rOut>>
    /\ UNCHANGED mainVars

\* The loop body runs on rows that are not fully masked; the diagonal cell
\* of such a row of the matrix is unmasked.
RowDirection ==
    /\ rpc = "paired"
    /\ ~rArray[rIndex + 1].m
    /\ rpc' = "stored"
    /\ rOut' = DirectionRow(rArray, rIndex, rMaxl)
    /\ UNCHANGED <<rArray, rIndex, rMaxl, rUp, rDown, rIndices>>
    /\ UNCHANGED mainVars

NextRow ==
    \/ RowUpDown
    \/ RowUnmaskedPair
    \/ RowDirection

SpecRow == InitRow /\ [][NextRow]_vars

\* ================================================================ claims
\* The input and the matrices by numpy index, and sums over sets of cells.
NBins == Len(binNames)
Bins == 0..(NBins - 1)
FileRows == Len(fileMatrix)
FileCols == Len(fileMatrix[1])
Chromosome(i) == binNames[i + 1].chr
Raw(i, j) == fileMatrix[i + 1][j + 1]
Masked(i, j) == probMatrix.mask[i + 1][j + 1]
Prob(i, j) == probMatrix.data[i + 1][j + 1]
Dist(i, j) == distMatrix.data[i + 1][j + 1]
Processed(i) == \E j \in Bins : ~Masked(i, j)

RECURSIVE SetSum(_, _)
SetSum(S, f) ==
    IF S = {} THEN 0
    ELSE LET x == CHOOSE y \in S : TRUE
         IN  f[x] + SetSum(S \ {x}, f)

RawColSum(j) == SetSum(0..(FileRows - 1), [r \in 0..(FileRows - 1) |-> Raw(r, j)])
RawRowSum(i) == SetSum(0..(FileCols - 1), [c \in 0..(FileCols - 1) |-> Raw(i, c)])
LowSignal(i) == 2 * RawColSum(i) < One

\* C1: after construction a cell is masked exactly when its bins lie on
\* different chromosomes or one of them is low-signal; the probability and
\* the distance matrix carry the same mask; the mask is symmetric.
C1_MaskDefinition ==
    pc = "ready" =>
        \A i \in Bins, j \in Bins :
            /\ Masked(i, j) <=> (\/ Chromosome(i) # Chromosome(j)
                                 \/ LowSignal(i)
                                 \/ LowSignal(j))
            /\ distMatrix.mask[i + 1][j + 1] = Masked(i, j)
            /\ Masked(i, j) = Masked(j, i)

C1_Witness ==
    /\ pc = "ready"
    /\ \E i \in Bins, j \in Bins : Raw(i, j) # Raw(j, i)
    /\ \E i \in Bins, j \in Bins : Chromosome(i) # Chromosome(j)
    /\ \E i \in Bins : LowSignal(i)
    /\ \E i \in Bins, j \in Bins : i # j /\ ~Masked(i, j)

\* C2: a bin whose column sum is below 0.5 has the excluded group, which is
\* no chromosome id, and its row and column are masked; any other bin has
\* its chromosome as group.  The row sum plays no part.
C2_LowSignalGroup ==
    pc = "ready" =>
        \A i \in Bins :
            IF 2 * RawColSum(i) < One
            THEN /\ binDF[i + 1].group = NaNGroup
                 /\ \A c \in Chrs : binDF[i + 1].group # Str(c)
                 /\ \A j \in Bins : Masked(i, j) /\ Masked(j, i)
            ELSE binDF[i + 1].group = Str(Chromosome(i))

C2_Witness ==
    /\ pc = "ready"
    /\ \E i \in Bins :
        /\ 2 * RawRowSum(i) < One
        /\ 2 * RawColSum(i) >= One
        /\ binDF[i + 1].group = Str(Chromosome(i))
    /\ \E i \in Bins :
        /\ 2 * RawColSum(i) < One
        /\ Chromosome(i) = "nan"
        /\ binDF[i + 1].group = NaNGroup

\* The pairs of the unmasked cells outside row and column skip, in row-major
\* order (skip = -1: of all unmasked cells).
RowMajor == [k \in 1..(NBins * NBins) |-> <<(k - 1) \div NBins, (k - 1) % NBins>>]
PairsWithout(skip) ==
    LET kept == SelectSeq(RowMajor,
                    LAMBDA c : ~Masked(c[1], c[2]) /\ c[1] # skip /\ c[2] # skip)
    IN  [k \in 1..Len(kept) |-> <<Dist(kept[k][1], kept[k][2]),
                                  Prob(kept[k][1], kept[k][2])>>]

\* C3: a bin whose row is fully masked keeps all its derived fields unset
\* whatever analyses have run, no exception was raised, and the result of
\* combinedDistance has no pair from its row or its column.
C3_MaskedRowUntouched ==
    pc = "ready" =>
        \A i \in Bins :
            (\A j \in Bins : Masked(i, j)) =>
                /\ binDF[i + 1].self = NaN
                /\ binDF[i + 1].inter = NaN
                /\ binDF[i + 1].up = NaN
                /\ binDF[i + 1].down = NaN
                /\ binDF[i + 1].log2 = NaN
                /\ binDF[i + 1].dist = NaN
                /\ err = "none"
                /\ profile.called => profile.pairs = PairsWithout(i)

C3_Witness ==
    /\ pc = "ready"
    /\ called.binDirection
    /\ called.binDistance
    /\ profile.called
    /\ \E i \in Bins : \A j \in Bins : Masked(i, j)
    /\ \E i \in Bins : binDF[i + 1].self # NaN /\ binDF[i + 1].dist # NaN
    /\ Len(profile.pairs) > 1

\* C4: for a processed row, self is cell [i][i], up and down are the sums of
\* the unmasked cells left and right of it whatever maxl is, inter is
\* 1 - up - down - self unclamped, and the four add up to 1.
UnmaskedSum(i, cols) ==
    SetSum({j \in cols : ~Masked(i, j)}, [j \in Bins |-> Prob(i, j)])

C4_Decomposition ==
    (pc = "ready" /\ called.binDirection) =>
        \A i \in Bins :
            Processed(i) =>
                LET b == binDF[i + 1]
                    upProb == UnmaskedSum(i, {j \in Bins : j < i})
                    downProb == UnmaskedSum(i, {j \in Bins : j > i})
                IN  /\ ~Masked(i, i)
                    /\ b.self = Num(Prob(i, i))
                    /\ b.up = Num(upProb)
                    /\ b.down = Num(downProb)
                    /\ b.inter = Num(One - upProb - downProb - Prob(i, i))
                    /\ b.self[2] + b.up[2] + b.down[2] + b.inter[2] = One

C4_Witness ==
    /\ pc = "ready"
    /\ called.binDirection
    /\ called.maxl = 1
    /\ \E i \in Bins :
        /\ Processed(i)
        /\ Cardinality({j \in Bins : j < i /\ ~Masked(i, j) /\ Prob(i, j) > 0}) > 1
        /\ binDF[i + 1].up[2] > 1
        /\ binDF[i + 1].inter[2] < 0

\* C5: with upSum and downSum taken over the aligned positions of a
\* processed row, log2 is NaN iff there is no aligned position or both sums
\* are 0, +inf iff only downSum is 0, -inf iff only upSum is 0, and
\* log2(upSum / downSum), which is finite, otherwise.
RowAligned ==
    {k \in 0..Len(rArray) :
        /\ k < rMaxl
        /\ rIndex - 1 - k >= 0
        /\ rIndex + 1 + k <= Len(rArray) - 1
        /\ ~rArray[rIndex - k].m
        /\ ~rArray[rIndex + 2 + k].m}

C5_Log2Classes ==
    rpc = "stored" =>
        LET K == RowAligned
            upSum == SetSum(K, [k \in K |-> rArray[rIndex - k].v])
            downSum == SetSum(K, [k \in K |-> rArray[rIndex + 2 + k].v])
            log2 == rOut.log2
        IN  /\ log2 = NaN <=> (K = {} \/ (upSum = 0 /\ downSum = 0))
            /\ log2 = PosInf <=> (downSum = 0 /\ upSum > 0)
            /\ log2 = NegInf <=> (upSum = 0 /\ downSum > 0)
            /\ log2[1] = "log2" <=> (upSum > 0 /\ downSum > 0)
            /\ log2[1] = "log2" => log2 = <<"log2", upSum, downSum>>

C5_Witness ==
    /\ rpc = "stored"
    /\ rOut.log2 = PosInf
    /\ rOut.down[2] > 0
    /\ rMaxl > 1

\* C5 in the bin table: the same classes for the rows binDirection stores.
Aligned(i, maxl) ==
    {k \in 0..(NBins - 1) :
        /\ k < maxl
        /\ i - 1 - k >= 0
        /\ i + 1 + k <= NBins - 1
        /\ ~Masked(i, i - 1 - k)
        /\ ~Masked(i, i + 1 + k)}

C5_TableLog2 ==
    (pc = "ready" /\ called.binDirection) =>
        \A i \in Bins :
            Processed(i) =>
                LET K == Aligned(i, called.maxl)
                    upSum == SetSum(K, [k \in K |-> Prob(i, i - 1 - k)])
                    downSum == SetSum(K, [k \in K |-> Prob(i, i + 1 + k)])
                    log2 == binDF[i + 1].log2
                IN  /\ log2 = NaN <=> (K = {} \/ (upSum = 0 /\ downSum = 0))
                    /\ log2 = PosInf <=> (downSum = 0 /\ upSum > 0)
                    /\ log2 = NegInf <=> (upSum = 0 /\ downSum > 0)
                    /\ log2[1] = "log2" <=> (upSum > 0 /\ downSum > 0)
                    /\ log2[1] = "log2" => log2 = <<"log2", upSum, downSum>>

\* C6: unmaskedPair returns, in increasing order, exactly the positions
\* below maxl and below both lengths at which both windows are unmasked;
\* nothing when a window is empty or maxl is 0.  For index 1 of an unmasked
\* row of 4 the log2 ratio comes from position 0 alone.
PairPositions ==
    {k \in 0..MaxLen :
        /\ k < rMaxl
        /\ k < Len(rUp)
        /\ k < Len(rDown)
        /\ ~rUp[k + 1].m
        /\ ~rDown[k + 1].m}

ClassOf(u, d) ==
    IF u = 0 /\ d = 0 THEN NaN
    ELSE IF d = 0 THEN PosInf
    ELSE IF u = 0 THEN NegInf
    ELSE <<"log2", u, d>>

UnmaskedCells == {c \in Bins \X Bins : ~Masked(c[1], c[2])}
Rank(c) ==
    Cardinality({d \in UnmaskedCells :
                    d[1] * NBins + d[2] <= c[1] * NBins + c[2]})

WeightSum(i) == UnmaskedSum(i, Bins)
WeightedDist(i) ==
    SetSum({j \in Bins : ~Masked(i, j)}, [j \in Bins |-> Dist(i, j) * Prob(i, j)])

C8_WeightedMean ==
    (pc = "ready" /\ called.binDistance) =>
        \A i \in Bins :
            Processed(i) =>
                binDF[i + 1].dist =
                    IF WeightSum(i) = 0 THEN NaN
                    ELSE Num(WeightedDist(i) \div (2 * WeightSum(i)))

\* C8, the rows with a positive weight sum: the truncated weighted mean is
\* stored; with a weight sum of 0 what is stored is a number, not NaN.
C8_PositiveWeights ==
    (pc = "ready" /\ called.binDistance) =>
        \A i \in Bins :
            Processed(i) =>
                IF WeightSum(i) = 0
                THEN binDF[i + 1].dist \in CastNaN /\ binDF[i + 1].dist # NaN
                ELSE binDF[i + 1].dist =
                        Num(WeightedDist(i) \div (2 * WeightSum(i)))

\* C9 as claimed: a matrix that is not square, or whose dimension is not the
\* number of bin labels, is rejected by the shape check of lines 30-31.
C9_ShapeErrorAlways ==
    (pc # "file" /\ (FileRows # FileCols \/ FileRows # NBins)) =>
        (pc = "failed" /\ err \in {"IOError", "IndexError(shape)"})

\* C9, amended: such a matrix is never constructed and nothing is analysed;
\* a matrix that is not square is rejected at the shape check, with the
\* shape error when it has at least two rows and two columns; a square
\* matrix of another dimension than the number of labels passes the shape
\* check and fails after it, when the mask is built.
C9_ConstructionFails ==
    pc # "file" =>
        /\ (FileRows # FileCols \/ FileRows # NBins) =>
            /\ pc = "failed"
            /\ err # "none"
            /\ binDF = <<>>
            /\ probMatrix = NoMatrix
            /\ distMatrix = NoMatrix
            /\ ~called.binDirection
            /\ ~called.binDistance
            /\ ~profile.called
        /\ FileRows # FileCols => err \in {"IOError", "IndexError(shape)"}
        /\ err = "IOError" <=> (FileRows > 1 /\ FileCols > 1 /\ FileRows # FileCols)
        /\ (FileRows = FileCols /\ FileRows > 1 /\ FileRows # NBins) =>
            (pc = "failed" /\ err = "IndexError(mask)")

C9_Witness ==
    /\ pc = "failed"
    /\ FileRows = FileCols
    /\ FileRows > 1
    /\ NBins > 1
    /\ FileRows # NBins
    /\ err = "IndexError(mask)"

\* C10: upDown returns the cells before the index nearest first and the
\* cells after it in order, each with its mask bit; position k of the two
\* windows holds the cells at numpy indices i - 1 - k and i + 1 + k.
C10_Windows ==
    rpc # "start" /\ rpc # "idle" =>
        /\ Len(rUp) = rIndex
        /\ Len(rDown) = Len(rArray) - 1 - rIndex
        /\ \A k \in 0..(Len(rUp) - 1) : rUp[k + 1] = rArray[(rIndex - 1 - k) + 1]
        /\ \A k \in 0..(Len(rDown) - 1) : rDown[k + 1] = rArray[(rIndex + 1 + k) + 1]

C10_Witness ==
    /\ rpc = "windows"
    /\ rIndex = 0
    /\ rUp = <<>>
    /\ Len(rDown) = 3
    /\ rDown[1].m
    /\ ~rDown[2].m
    /\ rDown[2].v # rDown[3].v

====
